---------------------------- MODULE Spec2Model ----------------------------
(***************************************************************************)
(* Model of js-tx-result: the TxResult constructor, its parsers success   *)
(* and failure, the code resolvers describeTxCode / describeOpCode, and   *)
(* the asynchronous entry points fromPromise and forCosmicLink.           *)
(*                                                                         *)
(* JavaScript values are tagged records [t |-> type, v |-> payload].      *)
(* A JavaScript string is a sequence of text segments (its value is their *)
(* concatenation); a return code is always held as                        *)
(*   << its first three characters, the remaining characters >>           *)
(* so that code.substr(3) is the sequence without its first segment.      *)
(***************************************************************************)
EXTENDS Integers, Sequences, FiniteSets, TLC

(* ------------------------------ bounds -------------------------------- *)

\* Longest result_codes.operations list that is enumerated.
MaxOps == 3

(* ------------------------- JavaScript values -------------------------- *)

undefined == [t |-> "undefined"]
Str(segs) == [t |-> "string", v |-> segs]
Num(n) == [t |-> "number", v |-> n]
Bool(b) == [t |-> "boolean", v |-> b]
Arr(seq) == [t |-> "array", v |-> seq]
\* A plain object; fields is a function from property names to values.
Obj(fields) == [t |-> "object", v |-> fields]
\* An object for which 'instanceof Error' holds.
Err(fields) == [t |-> "error", v |-> fields]
\* A function object (only met as an inherited Object.prototype member).
Fun(name) == [t |-> "function", v |-> name]

\* ToBoolean
Truthy(x) ==
  CASE x.t = "undefined" -> FALSE
    [] x.t = "boolean" -> x.v
    [] x.t = "string" -> x.v # << >>
    [] x.t = "number" -> x.v # 0
    [] OTHER -> TRUE

HasFields(x) == x.t \in {"object", "error"}

\* Reading x[k] throws a TypeError exactly when x is undefined.
CanRead(x) == x.t # "undefined"

\* x[k] for a value that can be read; a missing property reads undefined.
Get(x, k) ==
  IF HasFields(x) /\ k \in DOMAIN x.v THEN x.v[k] ELSE undefined

\* Outcome of a synchronous call or of a settled promise.
Return(x) == [kind |-> "return", value |-> x]
Throw(x) == [kind |-> "throw", value |-> x]
Resolved(x) == [kind |-> "resolved", value |-> x]
Rejected(x) == [kind |-> "rejected", value |-> x]

TypeError == Err([name |-> Str(<<"TypeError">>)])

Digits == <<"0", "1", "2", "3", "4", "5", "6", "7", "8", "9">>

\* Decimal text of a natural number.
RECURSIVE NumStr(_)
NumStr(n) ==
  IF n < 10 THEN <<Digits[n + 1]>>
  ELSE NumStr(n \div 10) \o <<Digits[(n % 10) + 1]>>

\* Text a value contributes to a template literal.
ToText(x) ==
  CASE x.t = "string" -> x.v
    [] x.t = "function" -> <<"function ", x.v, "() { [native code] }">>
    [] x.t = "undefined" -> <<"undefined">>
    [] OTHER -> <<"[object Object]">>


(* --------------------------- code dictionaries ------------------------ *)

\* codes.tx; every description is one text segment.
codes_tx ==
  [failed |-> "The transaction failed",
   too_early |-> "The transaction is not valid yet",
   too_late |-> "The transaction is not valid anymore",
   missing_operation |-> "The transaction does not have any operation",
   bad_seq |-> "The transaction sequence number is invalid",
   bad_auth |-> "The transaction doesn't have enough signatures",
   insufficient_balance |->
     "There are not enough funds to pay for the transaction fees",
   no_account |-> "The source account does not exist",
   insufficient_fee |-> "The transaction fees are too small",
   bad_auth_extra |-> "The transaction has too many signatures",
   internal_error |-> "An unknown error occurred",
   success |-> "The transaction has been validated",
   fee_bump_inner_success |-> "The fees have been bumped",
   fee_bump_inner_failed |-> "The fees failed to get bumped"]

\* codes.op (a backquote in a description is written as a quote)
codes_op ==
  [success |-> "The operation has been validated",
   not_supported |-> "This feature is not supported anymore",
   malformed |-> "The operation has invalid inputs",
   underfunded |-> "The source does not have enough funds",
   low_reserve |->
     "The source does not have enough funds to pay for reserve fee",
   already_exist |-> "The destination account already exists",
   src_no_trust |-> "The source does not trust this asset",
   src_not_authorized |-> "The source is not authorized to send this asset",
   no_destination |-> "The destination does not exist",
   no_trust |-> "The destination does not trust this asset",
   not_authorized |->
     "The destination is not authorized to receive this asset",
   line_full |-> "The trust limit for this asset is too low",
   no_issuer |-> "The issuer of the asset does not exist",
   too_few_offers |->
     "There is no path connecting 'send asset' to 'destination asset'",
   offer_cross_self |-> "The source would cross its own offer",
   under_destmin |->
     "The destination amount would be under the requested minimum",
   over_sendmax |-> "The send amount would be over the requested maximum",
   sell_no_trust |-> "The source does not trust 'selling asset'",
   buy_no_trust |-> "The source does not trust 'buying asset'",
   buy_not_authorized |-> "The source is not authorized to buy this asset",
   sell_not_authorized |-> "The source is not authorized to sell this asset",
   sell_no_issuer |-> "The issuer of 'selling asset' does not exist",
   buy_no_issuer |-> "The issuer of 'buying asset' does not exist",
   offer_not_found |-> "There is no offer with that 'offerId'",
   too_may_signers |-> "The source already has the maximum of 20 signers",
   bad_flags |->
     "The flags set and/or cleared are invalid by themselves or in combination",
   invalid_inflation |-> "The inflation destination does not exist",
   options_cant_change |-> "The source can no longer change this option",
   unknown_flag |-> "This flag is unknown",
   threshold_out_of_range |->
     "The value of a key weight or threshold is out of range",
   bad_signer |-> "The master key cannot be added as an additional signer",
   invalid_home_domain |-> "The home domain is malformed",
   invalid_limit |->
     "The limit is too low for current the current balance and liabilities",
   self_not_allowed |-> "The source already trust its own asset",
   no_trust_line |-> "The target account does not trust the source",
   trust_not_required |-> "The source has not set the 'auth_required' flag",
   trust_cant_revoke |-> "The source is not allowed to revoke this trustline",
   immutable_set |-> "The source has the 'auth_immutable' flag set",
   has_sub_entries |->
     "The source account still has opened trustlines or offers",
   merge_seqnum_too_far |-> "The source sequence number is too high",
   merge_dest_full |-> "The destination cannot receive the source Lumens",
   not_time |-> "Inflation can only run once a week",
   not_supported_yet |-> "The network does not support this feature yet",
   not_found |-> "The data entry does not exist",
   invalid_name |-> "The data entry name is not valid",
   bad_seq |-> "The sequence number is invalid"]

\* Both dictionaries are object literals, so a key they do not define is
\* looked up on Object.prototype; these are its function-valued members.
ObjectPrototypeFunctions ==
  {"constructor", "toString", "toLocaleString", "valueOf", "hasOwnProperty",
   "isPrototypeOf", "propertyIsEnumerable"}

\* dictionary[key], key being the text segments of a string.
Lookup(dictionary, key) ==
  IF Len(key) = 1 /\ key[1] \in DOMAIN dictionary THEN Str(<<dictionary[key[1]]>>)
  ELSE IF Len(key) = 1 /\ key[1] \in ObjectPrototypeFunctions THEN Fun(key[1])
  ELSE IF key = <<"__proto__">> THEN Obj(<< >>)
  ELSE undefined

\* code.substr(3)
substr3(code) == IF code = << >> THEN << >> ELSE Tail(code)

(* ------------------------------ utilities ----------------------------- *)

\* TxResult.describeTxCode
describeTxCode(code) ==
  IF code.t # "string" THEN Throw(TypeError)
  ELSE LET desc == Lookup(codes_tx, substr3(code.v))
       IN  IF Truthy(desc) THEN Return(desc)
           ELSE Return(Str(<<"An ", "unknown", " error occurred: tx_">> \o code.v))

\* TxResult.describeOpCode
describeOpCode(code) ==
  IF code.t # "string" THEN Throw(TypeError)
  ELSE LET desc == Lookup(codes_op, substr3(code.v))
       IN  IF Truthy(desc) THEN Return(desc)
           ELSE Return(Str(<<"An ", "unknown", " error occurred: op_">> \o code.v))

(* ------------------------------- parsers ------------------------------ *)

op_success == Str(<<"op_", "success">>)

\* success building the link from a base path and the hash (variant for C4).
success_builtLink(response) ==
  Return(Obj(
    [validated |-> Bool(TRUE),
     title |-> Str(<<"The transaction has been validated">>),
     hash |-> Get(response, "hash"),
     ledger |-> Get(response, "ledger"),
     offerResults |-> Get(response, "offerResults"),
     link |-> Str(<<"https://horizon-testnet.stellar.org/transactions/">>
                  \o ToText(Get(response, "hash")))]))

\* success (result, response): fills the result of a validated transaction.
\* Reading response._links.transaction.href throws when a link level is missing.
success(response) ==
  LET links == Get(response, "_links")
      transaction == Get(links, "transaction")
  IN  IF ~CanRead(links) \/ ~CanRead(transaction) THEN Throw(TypeError)
      ELSE Return(Obj(
        [validated |-> Bool(TRUE),
         title |-> Str(<<"The transaction has been validated">>),
         hash |-> Get(response, "hash"),
         ledger |-> Get(response, "ledger"),
         offerResults |-> Get(response, "offerResults"),
         link |-> Get(transaction, "href")]))

\* First .map() of the operations pipeline:
\*   code !== "op_success" && TxResult.describeOpCode(code)
describeOperations(operations) ==
  [i \in 1..Len(operations) |->
     IF operations[i] # op_success THEN describeOpCode(operations[i])
     ELSE Return(Bool(FALSE))]

\* numberOperations with the array index used as it is (variant for C1).
numberOperations_zeroBased(msgs) ==
  LET numbered ==
        [i \in 1..Len(msgs) |->
           IF Truthy(msgs[i].value)
           THEN Str(<<"Operation ">> \o NumStr(i - 1) \o <<": ">>
                    \o ToText(msgs[i].value) \o <<".">>)
           ELSE msgs[i].value]
  IN  SelectSeq(numbered, Truthy)

\* Second .map() and the .filter():
\*   msg && `Operation ${index + 1}: ${msg}.`   then   filter(msg => msg)
numberOperations(msgs) ==
  LET numbered ==
        [i \in 1..Len(msgs) |->
           IF Truthy(msgs[i].value)
           THEN Str(<<"Operation ">> \o NumStr(i) \o <<": ">>
                    \o ToText(msgs[i].value) \o <<".">>)
           ELSE msgs[i].value]
  IN  SelectSeq(numbered, Truthy)

\* The operations pipeline; .map is missing on anything but an array, and a
\* throwing describeOpCode aborts the pipeline.
operationsErrors(operations) ==
  IF operations.t # "array" THEN Throw(TypeError)
  ELSE LET msgs == describeOperations(operations.v)
       IN  IF \E i \in 1..Len(msgs) : msgs[i].kind = "throw" THEN Throw(TypeError)
           ELSE Return(Arr(numberOperations(msgs)))

\* failure.errors (result)
failure_errors(codes) ==
  IF ~CanRead(codes) THEN Throw(TypeError)
  ELSE IF ~Truthy(Get(codes, "operations"))
  THEN LET desc == describeTxCode(Get(codes, "transaction"))
       IN  IF desc.kind = "throw" THEN desc ELSE Return(Arr(<<desc.value>>))
  ELSE operationsErrors(Get(codes, "operations"))

\* failure (result, response); the caller has found response.data.extras.
failure(response) ==
  LET codes == Get(Get(Get(response, "data"), "extras"), "result_codes")
      errors == failure_errors(codes)
  IN  IF errors.kind = "throw" THEN errors
      ELSE Return(Obj(
        [validated |-> Bool(FALSE),
         title |-> Str(<<"The transaction has been rejected">>),
         codes |-> codes,
         errors |-> errors.value]))

\* failure (result, response) of src/index.js, which has no failure.errors:
\* it maps result.codes.operations without testing it, and its transaction
\* error is guarded by result.failed, a property no result has.
failure_index(response) ==
  LET codes == Get(Get(Get(response, "data"), "extras"), "result_codes")
      operations == Get(codes, "operations")
      errors == operationsErrors(operations)
      failed == undefined
  IN  IF ~CanRead(codes) \/ ~CanRead(operations) THEN Throw(TypeError)
      ELSE IF errors.kind = "throw" THEN errors
      ELSE IF Truthy(failed) /\ Len(errors.value.v) = 0
      THEN Throw(TypeError)  \* TxResult.describeTxError is not a function
      ELSE Return(Obj(
        [validated |-> Bool(FALSE),
         title |-> Str(<<"The transaction has been rejected">>),
         codes |-> codes,
         errors |-> errors.value]))

(* ----------------------------- constructor ---------------------------- *)

NotHorizon == Err([message |-> Str(<<"Not a Horizon txResponse">>)])

\* if (txResponse instanceof Error && txResponse.response)
unwrap(txResponse) ==
  IF txResponse.t = "error" /\ Truthy(Get(txResponse, "response"))
  THEN Get(txResponse, "response")
  ELSE txResponse

\* A constructor that answers an unknown shape with an empty rejection
\* (variant for C3).
TxResult_degrading(arg) ==
  LET txResponse == unwrap(arg)
  IN  IF ~CanRead(txResponse) THEN Throw(TypeError)
      ELSE IF Truthy(Get(txResponse, "hash")) THEN success(txResponse)
      ELSE IF Truthy(Get(txResponse, "data"))
              /\ Truthy(Get(Get(txResponse, "data"), "extras"))
      THEN failure(txResponse)
      ELSE Return(Obj(
        [validated |-> Bool(FALSE),
         title |-> Str(<<"The transaction has been rejected">>),
         errors |-> Arr(<< >>)]))

\* new TxResult(txResponse)
TxResult(arg) ==
  LET txResponse == unwrap(arg)
  IN  IF ~CanRead(txResponse) THEN Throw(TypeError)
      ELSE IF Truthy(Get(txResponse, "hash")) THEN success(txResponse)
      ELSE IF Truthy(Get(txResponse, "data"))
              /\ Truthy(Get(Get(txResponse, "data"), "extras"))
      THEN failure(txResponse)
      ELSE Throw(NotHorizon)

\* new TxResult(txResponse) of src/index.js
TxResult_index(arg) ==
  LET txResponse == unwrap(arg)
  IN  IF ~CanRead(txResponse) THEN Throw(TypeError)
      ELSE IF Truthy(Get(txResponse, "hash")) THEN success(txResponse)
      ELSE IF Truthy(Get(txResponse, "data"))
              /\ Truthy(Get(Get(txResponse, "data"), "extras"))
      THEN failure_index(txResponse)
      ELSE Throw(NotHorizon)

(* ------------------------------ fromPromise --------------------------- *)

\* TxResult.fromPromise, once `promise` has settled as `settlement`:
\*   promise.finally((response) => new TxResult(response))
\* A finally callback is called without argument, so `response` is undefined;
\* when the callback throws, the returned promise rejects with what it threw,
\* otherwise it settles as `promise` did whatever the callback returned.
fromPromise(settlement) ==
  LET callback == TxResult(undefined)
  IN  IF callback.kind = "throw" THEN Rejected(callback.value) ELSE settlement

(* ----------------------------- forCosmicLink -------------------------- *)

\* A URL is held as << scheme, host labels ..., path >>, the path optional:
\* "https://test.stellarguard.me/api" is <<"https://", "test.",
\* "stellarguard.me", "/api">>.
WordLabels == {"test.", "www."}
PathSegments == {"/", "/api/transactions", "/callback"}

\* url.match(/^https:\/\/(\w+\.)?stellarguard\.me/)
matchStellarGuard(url) ==
  /\ Len(url) >= 2
  /\ url[1] = "https://"
  /\ \/ url[2] = "stellarguard.me"
     \/ Len(url) >= 3 /\ url[2] \in WordLabels /\ url[3] = "stellarguard.me"

\* cosmicLink.callback.replace(/^https?:\/\/([^/]*)\/.*/, "$1")
callbackDomain(url) ==
  LET paths == {i \in 2..Len(url) : url[i] \in PathSegments}
  IN  IF Len(url) >= 1 /\ url[1] \in {"http://", "https://"} /\ paths # {}
      THEN SubSeq(url, 2, (CHOOSE i \in paths : \A j \in paths : i <= j) - 1)
      ELSE url

\* makeResultForDomain that prepares errors before it branches (variant
\* for C7).
makeResultForDomain_errorsFirst(domain, cosmicLink, isValidated) ==
  IF isValidated
  THEN IF ~CanRead(Get(cosmicLink, "transaction")) THEN Throw(TypeError)
       ELSE Return(Obj(
         [validated |-> Bool(TRUE),
          title |-> Str(<<"The transaction has been submitted to ">> \o domain),
          hash |-> Get(Get(cosmicLink, "transaction"), "hash"),
          errors |-> Arr(<< >>)]))
  ELSE Return(Obj(
         [validated |-> Bool(FALSE),
          title |-> Str(<<"The transaction has been rejected by ">> \o domain),
          errors |-> Arr(<< >>)]))

\* makeResultForDomain (domain, cosmicLink, isValidated)
makeResultForDomain(domain, cosmicLink, isValidated) ==
  IF isValidated
  THEN IF ~CanRead(Get(cosmicLink, "transaction")) THEN Throw(TypeError)
       ELSE Return(Obj(
         [validated |-> Bool(TRUE),
          title |-> Str(<<"The transaction has been submitted to ">> \o domain),
          hash |-> Get(Get(cosmicLink, "transaction"), "hash")]))
  ELSE Return(Obj(
         [validated |-> Bool(FALSE),
          title |-> Str(<<"The transaction has been rejected by ">> \o domain),
          errors |-> Arr(<< >>)]))

\* result.errors.push(message)
push(result, message) ==
  Obj([result.v EXCEPT !.errors = Arr(Append(@.v, message))])

\* cosmicLink.send().catch((error) => error.response || error)
sendResponse(settlement) ==
  IF settlement.kind = "resolved" THEN Return(settlement.value)
  ELSE IF ~CanRead(settlement.value) THEN Throw(TypeError)
  ELSE IF Truthy(Get(settlement.value, "response"))
  THEN Return(Get(settlement.value, "response"))
  ELSE Return(settlement.value)

\* The StellarGuard.me rejection branch.
stellarGuardRejection(cosmicLink, response) ==
  LET result == makeResultForDomain(<<"StellarGuard.me">>, cosmicLink, FALSE).value
      data == Get(response, "data")
  IN  IF ~CanRead(data) THEN Throw(TypeError)
      ELSE IF Truthy(Get(data, "message"))
      THEN Return(push(result, Get(data, "message")))
      ELSE Return(result)

\* The callback branch taking any answered status for a validation (variant
\* for C11).
callbackResult_anyStatus(cosmicLink, response) ==
  LET domain == callbackDomain(Get(cosmicLink, "callback").v)
      isValidated == Truthy(Get(response, "status"))
      result == makeResultForDomain(domain, cosmicLink, isValidated)
      error == IF Truthy(Get(response, "statusText"))
               THEN Get(response, "statusText")
               ELSE Get(response, "message")
  IN  IF result.kind = "throw" \/ isValidated \/ ~Truthy(error) THEN result
      ELSE Return(push(result.value, error))

\* The cosmicLink.callback branch.
callbackResult(cosmicLink, response) ==
  LET domain == callbackDomain(Get(cosmicLink, "callback").v)
      isValidated == Get(response, "status") = Num(200)
      result == makeResultForDomain(domain, cosmicLink, isValidated)
      error == IF Truthy(Get(response, "statusText"))
               THEN Get(response, "statusText")
               ELSE Get(response, "message")
  IN  IF result.kind = "throw" \/ isValidated \/ ~Truthy(error) THEN result
      ELSE Return(push(result.value, error))

\* Channel selection that looks at cosmicLink.callback before the request
\* URL (variant for C10).
selectChannel_callbackFirst(cosmicLink, response) ==
  IF ~CanRead(response) THEN Throw(TypeError)
  ELSE IF Truthy(Get(response, "stellarGuard"))
  THEN makeResultForDomain(<<"StellarGuard.me">>, cosmicLink, TRUE)
  ELSE IF Truthy(Get(cosmicLink, "callback"))
  THEN callbackResult(cosmicLink, response)
  ELSE IF /\ Truthy(Get(response, "config"))
          /\ Truthy(Get(Get(response, "config"), "url"))
          /\ matchStellarGuard(Get(Get(response, "config"), "url").v)
  THEN stellarGuardRejection(cosmicLink, response)
  ELSE TxResult(response)

\* The channel selection of TxResult.forCosmicLink, send() having answered.
selectChannel(cosmicLink, response) ==
  IF ~CanRead(response) THEN Throw(TypeError)
  ELSE IF Truthy(Get(response, "stellarGuard"))
  THEN makeResultForDomain(<<"StellarGuard.me">>, cosmicLink, TRUE)
  ELSE IF /\ Truthy(Get(response, "config"))
          /\ Truthy(Get(Get(response, "config"), "url"))
          /\ matchStellarGuard(Get(Get(response, "config"), "url").v)
  THEN stellarGuardRejection(cosmicLink, response)
  ELSE IF Truthy(Get(cosmicLink, "callback"))
  THEN callbackResult(cosmicLink, response)
  ELSE TxResult(response)

\* A returning async function resolves its promise, a throwing one rejects it.
Settle(outcome) ==
  IF outcome.kind = "throw" THEN Rejected(outcome.value)
  ELSE Resolved(outcome.value)

\* TxResult.forCosmicLink (cosmicLink), cosmicLink.send() having settled.
forCosmicLink(cosmicLink, settlement) ==
  LET response == sendResponse(settlement)
  IN  IF response.kind = "throw" THEN Settle(response)
      ELSE Settle(selectChannel(cosmicLink, response.value))

(* -------------------------------- inputs ------------------------------ *)

\* Marks a property that an enumerated object does not have.
absent == [t |-> "absent"]

\* The object with the properties of rec that are not marked absent.
Object(rec) == Obj([k \in {f \in DOMAIN rec : rec[f] # absent} |-> rec[k]])

\* Sequences over S of length 0..n.
RECURSIVE SeqsUpTo(_, _)
SeqsUpTo(S, n) ==
  IF n = 0 THEN {<< >>}
  ELSE LET shorter == SeqsUpTo(S, n - 1)
       IN  shorter \cup {Append(q, x) : q \in {r \in shorter : Len(r) = n - 1}, x \in S}

\* Operation codes: the success sentinel, two codes of codes.op, a code the
\* dictionary does not know, and one whose key is an Object.prototype member.
OpCodes ==
  {op_success, Str(<<"op_", "underfunded">>), Str(<<"op_", "no_destination">>),
   Str(<<"op_", "brand_new">>), Str(<<"op_", "toString">>)}

\* Transaction codes: two of codes.tx, an unknown one, an inherited key.
TxCodes ==
  {Str(<<"tx_", "failed">>), Str(<<"tx_", "bad_seq">>),
   Str(<<"tx_", "brand_new">>), Str(<<"tx_", "constructor">>)}

\* Further strings handed to the describe functions alone: a code shorter
\* than its prefix, the empty string, a foreign prefix, the other dictionary's
\* key, "__proto__".
OtherCodes ==
  {Str(<<"op">>), Str(<< >>), Str(<<"xx_", "bad_seq">>),
   Str(<<"tx_", "underfunded">>), Str(<<"op_", "too_late">>),
   Str(<<"tx_", "__proto__">>), Str(<<"tx_", "internal_error">>),
   Str(<<"op_", "unknown_flag">>)}

CodeStrings == OpCodes \cup TxCodes \cup OtherCodes

ResultCodes ==
  {Object([transaction |-> tx, operations |-> ops]) :
     tx \in TxCodes,
     ops \in {absent} \cup {Arr(q) : q \in SeqsUpTo(OpCodes, MaxOps)}}

Hash == Str(<<"d89c007e">>)
OtherHash == Str(<<"a1b2c3d4">>)
Base == "https://horizon-testnet.stellar.org/transactions/"
Links(hash) == Obj([transaction |-> Obj([href |-> Str(<<Base>> \o hash.v)])])

\* A rejection: data.extras.result_codes, without a hash.
Rejections ==
  {Obj([data |-> Obj([extras |-> Obj([result_codes |-> rc])])]) : rc \in ResultCodes}

\* Payloads with a hash property: complete or partial success payloads, with
\* an href that names the hash or another transaction, with or without a
\* data.extras structure besides; the empty hash is falsy.
WithHash ==
  {Object([hash |-> h, ledger |-> l, offerResults |-> o, _links |-> k, data |-> d]) :
     h \in {Hash, Str(<< >>)},
     l \in {Num(370369), absent},
     o \in {Arr(<< >>), absent},
     k \in {Links(Hash), Links(OtherHash), absent},
     d \in {absent,
            Obj([extras |-> Obj([result_codes |->
              Obj([transaction |-> Str(<<"tx_", "failed">>),
                   operations |-> Arr(<<Str(<<"op_", "underfunded">>)>>)])])])}}

\* Objects that are no Horizon response at all.
Malformed ==
  {Obj([foo |-> Str(<<"bar">>)]), Obj(<< >>), Obj([data |-> Obj(<< >>)]),
   Obj([data |-> Obj([extras |-> Obj(<< >>)])]),
   Obj([status |-> Num(404), statusText |-> Str(<<"Not Found">>)])}

Payloads == Rejections \cup WithHash \cup Malformed

\* Errors: wrapping a payload under `response`, or carrying none.
Errors ==
  {Err([message |-> Str(<<"Request failed">>), response |-> r]) : r \in Payloads}
  \cup {Err([message |-> Str(<<"Network Error">>)])}

\* What new TxResult() is given: an object, as its documentation asks.
TxResponses == Payloads \cup Errors

StellarGuardUrl == Str(<<"https://", "stellarguard.me", "/api/transactions">>)
StellarGuardTestUrl ==
  Str(<<"https://", "test.", "stellarguard.me", "/api/transactions">>)
HorizonUrl == Str(<<"https://", "horizon-testnet.", "stellar.org", "/transactions">>)
Configs == {absent} \cup {Obj([url |-> u]) :
                            u \in {StellarGuardUrl, StellarGuardTestUrl, HorizonUrl}}

\* What cosmicLink.send() may answer with, or reject with under `response`:
\* every combination of the markers forCosmicLink looks at.
SendResponses ==
  {Object([stellarGuard |-> g, config |-> c, data |-> d, status |-> st,
           statusText |-> txt, hash |-> hl[1], _links |-> hl[2]]) :
     g \in {Bool(TRUE), absent},
     c \in Configs,
     d \in {absent, Obj(<< >>), Obj([message |-> Str(<<"rate limited">>)]),
            Obj([extras |-> Obj([result_codes |->
              Obj([transaction |-> Str(<<"tx_", "failed">>),
                   operations |-> Arr(<<Str(<<"op_", "underfunded">>)>>)])])])},
     st \in {Num(200), Num(400), absent},
     txt \in {Str(<<"Bad Request">>), absent},
     hl \in {<<Hash, Links(Hash)>>, <<absent, absent>>}}

\* Transport failures: errors without a response; the HTTP client records
\* the request's config on them.
TransportErrors ==
  {[t |-> "error", v |-> Object([message |-> m, config |-> c]).v] :
     m \in {Str(<<"Network Error">>), Str(<< >>), absent}, c \in Configs}

SendSettlements ==
  {Resolved(r) : r \in SendResponses}
  \cup {Rejected(Err([message |-> Str(<<"Request failed">>), response |-> r])) :
          r \in SendResponses}
  \cup {Rejected(e) : e \in TransportErrors}

\* Locked cosmicLinks: a transaction, and a callback or none.
CosmicLinks ==
  {Object([transaction |-> Obj([hash |-> OtherHash]), callback |-> cb]) :
     cb \in {absent, Str(<<"https://", "example.org", "/callback">>),
             Str(<<"http://", "example.org">>)}}

\* How the promise given to fromPromise may settle.
PromiseSettlements ==
  {Resolved(r) : r \in WithHash \cup Malformed}
  \cup {Rejected(e) : e \in Errors}

(* ----------------------------- state machine -------------------------- *)

VARIABLES
  call,     \* the last library call: [fn, arg]
  promise,  \* the promise that call waits for: none, pending or its settlement
  outcome   \* what the call returned, threw, or how its promise settled

vars == <<call, promise, outcome>>

None == [kind |-> "none"]
Pending == [kind |-> "pending"]

Init ==
  /\ call = [fn |-> "none", arg |-> undefined]
  /\ promise = None
  /\ outcome = None

\* Nothing has been called yet. The library keeps no state from one call to
\* the next, so a behaviour follows one call from its start to its outcome.
Idle == call.fn = "none"

\* new TxResult(txResponse)
Construct ==
  /\ Idle
  /\ \E txResponse \in TxResponses :
       /\ call' = [fn |-> "TxResult", arg |-> txResponse]
       /\ outcome' = TxResult(txResponse)
  /\ promise' = None

\* new TxResult(txResponse), src/index.js
ConstructIndex ==
  /\ Idle
  /\ \E txResponse \in TxResponses :
       /\ call' = [fn |-> "TxResult_index", arg |-> txResponse]
       /\ outcome' = TxResult_index(txResponse)
  /\ promise' = None

\* TxResult.describeTxCode(code)
DescribeTx ==
  /\ Idle
  /\ \E code \in CodeStrings :
       /\ call' = [fn |-> "describeTxCode", arg |-> code]
       /\ outcome' = describeTxCode(code)
  /\ promise' = None

\* TxResult.describeOpCode(code)
DescribeOp ==
  /\ Idle
  /\ \E code \in CodeStrings :
       /\ call' = [fn |-> "describeOpCode", arg |-> code]
       /\ outcome' = describeOpCode(code)
  /\ promise' = None

\* TxResult.fromPromise(promise), the promise unsettled.
FromPromise ==
  /\ Idle
  /\ call' = [fn |-> "fromPromise", arg |-> undefined]
  /\ promise' = Pending
  /\ outcome' = Pending

\* The promise given to fromPromise settles and the finally callback runs.
PromiseSettles ==
  /\ call.fn = "fromPromise"
  /\ promise = Pending
  /\ \E settlement \in PromiseSettlements :
       /\ promise' = settlement
       /\ outcome' = fromPromise(settlement)
  /\ UNCHANGED call

\* TxResult.forCosmicLink(cosmicLink) up to `await cosmicLink.send()`.
ForCosmicLink ==
  /\ Idle
  /\ \E cosmicLink \in CosmicLinks :
       call' = [fn |-> "forCosmicLink", arg |-> cosmicLink]
  /\ promise' = Pending
  /\ outcome' = Pending

\* cosmicLink.send() settles and forCosmicLink runs to its end.
SendSettles ==
  /\ call.fn = "forCosmicLink"
  /\ promise = Pending
  /\ \E settlement \in SendSettlements :
       /\ promise' = settlement
       /\ outcome' = forCosmicLink(call.arg, settlement)
  /\ UNCHANGED call

Next ==
  \/ Construct
  \/ ConstructIndex
  \/ DescribeTx
  \/ DescribeOp
  \/ FromPromise
  \/ PromiseSettles
  \/ ForCosmicLink
  \/ SendSettles

Spec == Init /\ [][Next]_vars

(* ------------------------ vocabulary of the claims -------------------- *)

Constructors == {"TxResult", "TxResult_index"}

\* The response a constructor argument stands for: an Error's embedded
\* response when it has one, the argument otherwise.
Embedded(arg) ==
  IF arg.t = "error" /\ "response" \in DOMAIN arg.v THEN arg.v.response ELSE arg

HasHash(r) == "hash" \in DOMAIN r.v /\ r.v.hash.v # << >>
HasExtras(r) == "data" \in DOMAIN r.v /\ "extras" \in DOMAIN r.v.data.v

\* The result_codes of a response that has data.extras.
ResultCodesOf(r) == r.v.data.v.extras.v.result_codes

\* A rejection response: data.extras.result_codes and no (non-empty) hash.
IsRejection(r) ==
  /\ ~HasHash(r)
  /\ HasExtras(r)
  /\ "result_codes" \in DOMAIN r.v.data.v.extras.v

\* A constructor has been called on a rejection response.
ConstructedRejection ==
  call.fn \in Constructors /\ IsRejection(Embedded(call.arg))

\* Positions of the codes other than "op_success".
NonSuccess(ops) == {i \in 1..Len(ops) : ops[i] # Str(<<"op_", "success">>)}

\* s is a contiguous part of text.
Contains(text, s) ==
  \E i \in 0..(Len(text) - Len(s)) : SubSeq(text, i + 1, i + Len(s)) = s

EndsWith(text, s) ==
  Len(text) >= Len(s) /\ SubSeq(text, Len(text) - Len(s) + 1, Len(text)) = s

(* --------------------------------- C1 --------------------------------- *)

\* C1: a constructor given a rejection response whose result_codes.operations
\* is a list with k codes other than "op_success" returns a result with
\* validated = false and exactly k errors; the error of the j-th such code,
\* at 1-based position i, is "Operation <i>: <describeOpCode(code)>.", so
\* the positions ascend and no success code has an entry.
C1_OperationErrors ==
  (ConstructedRejection /\ "operations" \in DOMAIN ResultCodesOf(Embedded(call.arg)).v)
  => LET ops == ResultCodesOf(Embedded(call.arg)).v.operations.v
         failed == NonSuccess(ops)
         rank(i) == Cardinality({m \in failed : m <= i})
     IN  /\ outcome.kind = "return"
         /\ outcome.value.v.validated = Bool(FALSE)
         /\ outcome.value.v.errors.t = "array"
         /\ Len(outcome.value.v.errors.v) = Cardinality(failed)
         /\ \A i \in failed :
              outcome.value.v.errors.v[rank(i)] =
                Str(<<"Operation ">> \o NumStr(i) \o <<": ">>
                    \o ToText(describeOpCode(ops[i]).value) \o <<".">>)

\* C1 witness: operations ["op_underfunded", "op_success", "op_no_destination"]
\* gave the two errors of operations 1 and 3.
C1_Witness ==
  /\ ConstructedRejection
  /\ "operations" \in DOMAIN ResultCodesOf(Embedded(call.arg)).v
  /\ ResultCodesOf(Embedded(call.arg)).v.operations.v =
       <<Str(<<"op_", "underfunded">>), Str(<<"op_", "success">>),
         Str(<<"op_", "no_destination">>)>>
  /\ outcome.kind = "return"
  /\ outcome.value.v.errors.v =
       <<Str(<<"Operation ", "1", ": ", "The source does not have enough funds", ".">>),
         Str(<<"Operation ", "3", ": ", "The destination does not exist", ".">>)>>

(* --------------------------------- C2 --------------------------------- *)

\* C2: a constructor given a rejection response whose result_codes has no
\* operations entry returns a result whose errors is the one-element list
\* holding describeTxCode(result_codes.transaction), no period appended.
C2_TransactionError ==
  (ConstructedRejection
     /\ "operations" \notin DOMAIN ResultCodesOf(Embedded(call.arg)).v)
  => /\ outcome.kind = "return"
     /\ outcome.value.v.errors =
          Arr(<<describeTxCode(ResultCodesOf(Embedded(call.arg)).v.transaction).value>>)

(* --------------------------------- C3 --------------------------------- *)

\* C3: a constructor given an object that, after unwrapping, has neither a
\* non-empty hash nor a data.extras structure throws the error
\* "Not a Horizon txResponse" and returns no result.
C3_MalformedThrows ==
  (/\ call.fn \in Constructors
   /\ ~HasHash(Embedded(call.arg))
   /\ ~HasExtras(Embedded(call.arg)))
  => outcome = Throw(Err([message |-> Str(<<"Not a Horizon txResponse">>)]))

\* C3 witness: new TxResult({foo: "bar"}) threw.
C3_Witness ==
  /\ call = [fn |-> "TxResult", arg |-> Obj([foo |-> Str(<<"bar">>)])]
  /\ outcome.kind = "throw"

(* --------------------------------- C4 --------------------------------- *)

\* A constructor has been called on a payload with a non-empty hash.
ConstructedSuccess ==
  call.fn \in Constructors /\ HasHash(Embedded(call.arg))

\* The result copies hash, ledger and offerResults from the payload.
CopiesPayload(result, payload) ==
  /\ result.v.validated = Bool(TRUE)
  /\ result.v.title = Str(<<"The transaction has been validated">>)
  /\ result.v.hash = payload.v.hash
  /\ result.v.ledger =
       (IF "ledger" \in DOMAIN payload.v THEN payload.v.ledger ELSE undefined)
  /\ result.v.offerResults =
       (IF "offerResults" \in DOMAIN payload.v THEN payload.v.offerResults
        ELSE undefined)

\* C4 as stated: every payload with a non-empty hash (and a
\* _links.transaction.href to take a link from) gives a result with
\* validated = true, the fixed title, the payload's hash, ledger and offer
\* metadata, and a link that ends with the payload's hash.
C4_LinkEndsWithHash ==
  (ConstructedSuccess /\ "_links" \in DOMAIN Embedded(call.arg).v)
  => /\ outcome.kind = "return"
     /\ CopiesPayload(outcome.value, Embedded(call.arg))
     /\ outcome.value.v.link.t = "string"
     /\ EndsWith(outcome.value.v.link.v, Embedded(call.arg).v.hash.v)

\* C4 amended: a payload with a non-empty hash and a _links.transaction gives
\* a result with validated = true, the fixed title, the payload's hash,
\* ledger and offer metadata, and as link the payload's
\* _links.transaction.href unchanged; without _links the constructor throws
\* a TypeError.
C4_LinkIsHref ==
  ConstructedSuccess
  => IF "_links" \in DOMAIN Embedded(call.arg).v
     THEN /\ outcome.kind = "return"
          /\ CopiesPayload(outcome.value, Embedded(call.arg))
          /\ outcome.value.v.link =
               Embedded(call.arg).v._links.v.transaction.v.href
     ELSE outcome = Throw(TypeError)

\* C4 witness: a payload whose href names another transaction than its hash
\* gave a result carrying that href.
C4_Witness ==
  /\ ConstructedSuccess
  /\ outcome.kind = "return"
  /\ outcome.value.v.hash = Str(<<"d89c007e">>)
  /\ outcome.value.v.ledger = Num(370369)
  /\ outcome.value.v.link =
       Str(<<"https://horizon-testnet.stellar.org/transactions/", "a1b2c3d4">>)

(* --------------------------------- C5 --------------------------------- *)

\* The keys codes.tx and codes.op define.
KeysOf(fn) ==
  IF fn = "describeTxCode" THEN DOMAIN codes_tx ELSE DOMAIN codes_op

DescriptionOf(fn, key) ==
  IF fn = "describeTxCode" THEN codes_tx[key] ELSE codes_op[key]

\* The code without its first three characters.
KeyOf(code) == IF Len(code) <= 1 THEN << >> ELSE SubSeq(code, 2, Len(code))

\* C5: describeTxCode and describeOpCode, given a code string whose key (the
\* code without its first 3 characters) is not in their dictionary, return
\* a string containing the code and the word "unknown", and given a code
\* whose key is in it, the dictionary's description.
C5_UnknownCode ==
  (call.fn \in {"describeTxCode", "describeOpCode"})
  => LET key == KeyOf(call.arg.v)
     IN  /\ outcome.kind = "return"
         /\ outcome.value.t = "string"
         /\ IF Len(key) = 1 /\ key[1] \in KeysOf(call.fn)
            THEN outcome.value.v = <<DescriptionOf(call.fn, key[1])>>
            ELSE /\ Contains(outcome.value.v, call.arg.v)
                 /\ Contains(outcome.value.v, <<"unknown">>)

(* --------------------------------- C6 --------------------------------- *)

\* C6: once the promise given to fromPromise has settled, with a response
\* or an error the constructor builds a result from, the promise fromPromise
\* returned is resolved with that result, also when the promise rejected.
C6_FromPromiseResolves ==
  (/\ call.fn = "fromPromise"
   /\ promise.kind \in {"resolved", "rejected"}
   /\ TxResult(promise.value).kind = "return")
  => outcome = Resolved(TxResult(promise.value).value)

(* --------------------------------- C7 --------------------------------- *)

\* A result object has been produced, by a constructor or by forCosmicLink.
Produced ==
  \/ call.fn \in Constructors /\ outcome.kind = "return"
  \/ call.fn = "forCosmicLink" /\ outcome.kind = "resolved"

Has(result, field) == field \in DOMAIN result.v

\* The property is there and holds a value.
Populated(result, field) ==
  Has(result, field) /\ result.v[field] # undefined

Lacks(result, field) == field \notin DOMAIN result.v

\* C7 as stated: every result is either validated = true with the success
\* fields hash, ledger and link and neither codes nor errors, or
\* validated = false with the error fields codes and errors and none of
\* hash, ledger, link.
C7_TaggedUnion ==
  Produced
  => \/ /\ outcome.value.v.validated = Bool(TRUE)
        /\ \A f \in {"hash", "ledger", "link"} : Has(outcome.value, f)
        /\ \A f \in {"codes", "errors"} : Lacks(outcome.value, f)
     \/ /\ outcome.value.v.validated = Bool(FALSE)
        /\ \A f \in {"codes", "errors"} : Has(outcome.value, f)
        /\ \A f \in {"hash", "ledger", "link"} : Lacks(outcome.value, f)

\* C7 amended: every result is either validated = true with hash populated
\* and neither codes nor errors, or validated = false with errors a list and
\* none of hash, ledger, link. A constructor's success also has ledger and
\* link and a constructor's rejection also has codes; a result of the relay
\* and callback channels has no ledger, link or codes.
C7_NeverHybrid ==
  Produced
  => LET result == outcome.value
         relayed == result.v.title \notin
                      {Str(<<"The transaction has been validated">>),
                       Str(<<"The transaction has been rejected">>)}
     IN  \/ /\ result.v.validated = Bool(TRUE)
            /\ Populated(result, "hash")
            /\ \A f \in {"codes", "errors"} : Lacks(result, f)
            /\ IF relayed
               THEN \A f \in {"ledger", "link"} : Lacks(result, f)
               ELSE \A f \in {"ledger", "link"} : Has(result, f)
         \/ /\ result.v.validated = Bool(FALSE)
            /\ Has(result, "errors")
            /\ result.v.errors.t = "array"
            /\ \A f \in {"hash", "ledger", "link"} : Lacks(result, f)
            /\ IF relayed THEN Lacks(result, "codes")
               ELSE Populated(result, "codes")

\* C7 witness: a payload with both a hash and data.extras was given to the
\* constructor and came out as a success without codes or errors.
C7_Witness ==
  /\ call.fn = "TxResult"
  /\ HasHash(call.arg) /\ HasExtras(call.arg)
  /\ outcome.kind = "return"
  /\ outcome.value.v.validated = Bool(TRUE)
  /\ Lacks(outcome.value, "errors")

(* ------------------------ forCosmicLink vocabulary -------------------- *)

\* forCosmicLink has run to its end.
CosmicLinkDone ==
  call.fn = "forCosmicLink" /\ promise.kind \in {"resolved", "rejected"}

\* What send() answered: its response, or for a rejection the error's
\* response, or the error itself when it has none.
Answer ==
  IF promise.kind = "rejected" /\ "response" \in DOMAIN promise.value.v
  THEN promise.value.v.response
  ELSE promise.value

\* The relay-confirmation flag.
Flagged == "stellarGuard" \in DOMAIN Answer.v

\* The request went to the relay's domain.
RelayUrl ==
  /\ "config" \in DOMAIN Answer.v
  /\ Answer.v.config.v.url.v[1] = "https://"
  /\ \/ Answer.v.config.v.url.v[2] = "stellarguard.me"
     \/ Answer.v.config.v.url.v[3] = "stellarguard.me"

HasCallback == "callback" \in DOMAIN call.arg.v

\* send() rejected with an error that has no response.
TransportFailure ==
  promise.kind = "rejected" /\ "response" \notin DOMAIN promise.value.v

\* The relay's own message, if it gave one.
RelayMessage ==
  IF "data" \in DOMAIN Answer.v /\ "message" \in DOMAIN Answer.v.data.v
  THEN <<Answer.v.data.v.message>>
  ELSE << >>

(* --------------------------------- C8 --------------------------------- *)

\* C8: in every result with validated = false, errors is a list, and it is
\* empty only on the relay-rejected channel when the relay gave no message;
\* every rejection built by a constructor has at least one error.
C8_ErrorsNeverEmpty ==
  (Produced /\ outcome.value.v.validated = Bool(FALSE))
  => /\ "errors" \in DOMAIN outcome.value.v
     /\ outcome.value.v.errors.t = "array"
     /\ outcome.value.v.errors.v = << >>
          => /\ call.fn = "forCosmicLink"
             /\ ~Flagged /\ RelayUrl
             /\ RelayMessage = << >>

(* --------------------------------- C9 --------------------------------- *)

\* C9: when a send() to a relay (a request to the relay's domain, or a
\* cosmicLink with a callback) rejects with an error that has a message and
\* no response, forCosmicLink resolves to a result with validated = false
\* whose errors is the list holding just the error's message.
C9_TransportFailureFolded ==
  (/\ CosmicLinkDone
   /\ TransportFailure
   /\ "message" \in DOMAIN promise.value.v
   /\ promise.value.v.message.v # << >>
   /\ (RelayUrl \/ HasCallback))
  => /\ outcome.kind = "resolved"
     /\ outcome.value.v.validated = Bool(FALSE)
     /\ "errors" \in DOMAIN outcome.value.v
     /\ outcome.value.v.errors = Arr(<<promise.value.v.message>>)

(* --------------------------------- C10 -------------------------------- *)

SubmittedTo == "The transaction has been submitted to "
RejectedBy == "The transaction has been rejected by "

\* C10: forCosmicLink answers from one channel, the first that matches of:
\* the stellarGuard flag, a request URL on the relay's domain, a callback on
\* the cosmicLink, and else the constructor. With the flag the result is
\* the relay's confirmation; without it and with the URL it is the relay's
\* rejection, holding nothing but the relay's message (or the call fails on
\* a response without data); without both and with a callback it is a
\* result named after the callback, without codes, ledger or link; the
\* constructor's outcome is the result only when no marker matches.
C10_ChannelPrecedence ==
  CosmicLinkDone
  => IF Flagged
     THEN outcome = Resolved(Obj(
            [validated |-> Bool(TRUE),
             title |-> Str(<<SubmittedTo, "StellarGuard.me">>),
             hash |-> call.arg.v.transaction.v.hash]))
     ELSE IF RelayUrl
     THEN IF "data" \in DOMAIN Answer.v
          THEN outcome = Resolved(Obj(
                 [validated |-> Bool(FALSE),
                  title |-> Str(<<RejectedBy, "StellarGuard.me">>),
                  errors |-> Arr(RelayMessage)]))
          ELSE outcome = Rejected(TypeError)
     ELSE IF HasCallback
     THEN /\ outcome.kind = "resolved"
          /\ outcome.value.v.title.v[1] \in {SubmittedTo, RejectedBy}
          /\ outcome.value.v.title.v[2] # "StellarGuard.me"
          /\ DOMAIN outcome.value.v \in
               {{"validated", "title", "hash"}, {"validated", "title", "errors"}}
     ELSE /\ outcome = Settle(TxResult(Answer))
          /\ outcome.kind = "resolved"
               => outcome.value.v.title \in
                    {Str(<<"The transaction has been validated">>),
                     Str(<<"The transaction has been rejected">>)}

\* C10 witness: the answer carried the flag, a relay URL, a status, a hash
\* and data.extras, the cosmicLink had a callback, and the result is the
\* relay's confirmation.
C10_Witness ==
  /\ CosmicLinkDone
  /\ Flagged /\ RelayUrl /\ HasCallback
  /\ HasHash(Answer) /\ HasExtras(Answer)
  /\ outcome.kind = "resolved"
  /\ outcome.value.v.title = Str(<<SubmittedTo, "StellarGuard.me">>)

(* --------------------------------- C11 -------------------------------- *)

\* forCosmicLink has answered from the callback channel: the cosmicLink has
\* a callback and the answer carries no relay marker.
OnCallbackChannel ==
  CosmicLinkDone /\ ~Flagged /\ ~RelayUrl /\ HasCallback

\* The answer's status is the number 200.
Status200 == "status" \in DOMAIN Answer.v /\ Answer.v.status = Num(200)

\* The answer's non-empty property `field`, as a list of one or no text.
TextOf(field) ==
  IF field \in DOMAIN Answer.v /\ Answer.v[field].v # << >>
  THEN <<Answer.v[field]>>
  ELSE << >>

=============================================================================
